---- MODULE Spec2Model ----
(***************************************************************************)
(* Access-control and status-transition model of dashboard_ldt_back.       *)
(* The relational tables are the state; every HTTP handler is one action   *)
(* that reads the tables, decides a status code and, on success, commits.  *)
(***************************************************************************)
EXTENDS Integers, Sequences, FiniteSets, TLC

\* ------------------------------------------------------------------ bounds
MaxAlumnos == 1
MaxAlumnosBorrado == 2
MaxHistorial == 2
MaxObservaciones == 1
MaxBolsas == 2
MaxFilasEstados == 17
MaxSeqBolsas == 6

\* ------------------------------------------------------- program constants
NIVEL_ADMIN == 1
NIVEL_MODERADOR == 2
ROL_PASTOR == 1
ROL_MAESTRO == 2
PERFIL_USUARIO == 3
ESTADO_TARJETA == 1
MAX_ESTADOS == 15

\* ------------------------------------------------------------------- state
VARIABLES
    personas,       \* personas: id_persona -> [id_perfil, nombre]
    person_roles,   \* person_roles: set of <<person_id, id_rol>>
    maestros,       \* maestros: id_maestro -> id_persona
    alumnos,        \* alumnos: id_alumno -> [id_persona, id_estado_actual, franja_horaria]
    tarjetas,       \* tarjetas: id_alumno -> [id_maestro_asignado, id_estado_actual]
    estados,        \* estados: id_estado -> [nombre, orden, activo, id_bolsa]
    bolsas,         \* bolsas: id_bolsa -> [nombre, activo]
    historial,      \* historial_estados rows, in insertion order
    observaciones,  \* observaciones rows, in insertion order
    creados,        \* number of alumnos rows ever inserted (primary keys are never reused)
    estados_seq,    \* last value of the autoincrement sequence of estados.id_estado
    reloj,          \* the database clock behind server_default=func.now()
    sesiones,       \* the open database sessions of PATCH /alumnos/{id}/estado requests
    last            \* the last request and its response

tablas == <<personas, person_roles, maestros, alumnos, tarjetas, estados, bolsas,
            historial, observaciones, creados, estados_seq, reloj>>
vars == <<personas, person_roles, maestros, alumnos, tarjetas, estados, bolsas,
          historial, observaciones, creados, estados_seq, reloj, sesiones, last>>

\* ------------------------------------------------------------- identifiers
\* Authenticated subjects: G is the caller under study (any profile, any
\* roles, with or without a Maestro row), T a moderator teacher.
Callers == {"G", "T"}
PersonaAlumno == <<"s1", "s2", "s3", "s4">>
AlumnoIds == 1..MaxAlumnos
BAD_UUID == -1
NONE == "none"
Perfiles == {NIVEL_ADMIN, NIVEL_MODERADOR, PERFIL_USUARIO}
Roles == {ROL_PASTOR, ROL_MAESTRO}

\* ----------------------------------------------------------------- lookups
\* db.query(Persona).filter(Persona.auth_user_id == auth_user_id).first()
PersonaAutenticada(c) == IF c \in DOMAIN personas THEN c ELSE NONE

\* perfil.nivel_acceso of the caller's profile (1 admin, 2 moderator, 3 user)
NivelAcceso(c) == personas[c].id_perfil

\* roles = [pr.id_rol for pr in person_roles]
RolesDe(c) == {r \in Roles : <<c, r>> \in person_roles}

EsAdmin(c) == NivelAcceso(c) = NIVEL_ADMIN
EsModerador(c) == NivelAcceso(c) = NIVEL_MODERADOR
EsPastor(c) == ROL_PASTOR \in RolesDe(c)
EsMaestro(c) == ROL_MAESTRO \in RolesDe(c)

\* db.query(Maestro).filter(Maestro.id_persona == persona.id_persona).first()
MaestroDe(c) ==
    IF \E m \in DOMAIN maestros : maestros[m] = c
    THEN CHOOSE m \in DOMAIN maestros : maestros[m] = c
    ELSE NONE

\* uuid.UUID(id_alumno) succeeds
UuidValido(id) == id # BAD_UUID

\* db.query(Alumno).filter(Alumno.id_alumno == id).first() is not None
AlumnoExiste(id) == id \in DOMAIN alumnos

\* the Tarjeta row of the student points to the caller's Maestro row
TarjetaDeMaestro(id, m) ==
    id \in DOMAIN tarjetas /\ tarjetas[id].id_maestro_asignado = m

EstadoExiste(e) == e \in DOMAIN estados
\* variant: the activo flag is not looked at
EstadoActivoSinMirar(e) == TRUE

EstadoActivo(e) == estados[e].activo

\* ------------------------------------------------------------------- Init
EstadosIniciales ==
    (1 :> [nombre |-> "activo", orden |-> 1, activo |-> TRUE, id_bolsa |-> 0]) @@
    (2 :> [nombre |-> "primero", orden |-> 2, activo |-> TRUE, id_bolsa |-> 1]) @@
    (3 :> [nombre |-> "baja", orden |-> 3, activo |-> FALSE, id_bolsa |-> 1]) @@
    (4 :> [nombre |-> "segundo", orden |-> 4, activo |-> TRUE, id_bolsa |-> 1])

\* the request that was served and its answer; cuerpo is the part of the JSON
\* body that the listing handlers return
Respuesta(op, c, id, e, code) ==
    [op |-> op, caller |-> c, id |-> id, estado |-> e, code |-> code, cuerpo |-> NONE]

SinPeticion == Respuesta("init", NONE, 0, 0, 0)

Sesiones == {1, 2}

\* a session that serves no request
SesionLibre ==
    [pc |-> "libre", caller |-> NONE, id |-> 0, estado |-> 0, comentario |-> NONE,
     cargado |-> 0, code |-> 0]

Init ==
    /\ \E p \in Perfiles :
         personas = ("G" :> [id_perfil |-> p, nombre |-> "n0"]) @@
                    ("T" :> [id_perfil |-> NIVEL_MODERADOR, nombre |-> "n0"])
    /\ \E rs \in SUBSET Roles :
         person_roles = {<<"G", r>> : r \in rs} \cup {<<"T", ROL_MAESTRO>>}
    /\ \E g \in BOOLEAN :
         maestros = IF g THEN ("mT" :> "T") @@ ("mG" :> "G") ELSE ("mT" :> "T")
    /\ alumnos = <<>>
    /\ tarjetas = <<>>
    /\ estados = EstadosIniciales
    /\ bolsas = (1 :> [nombre |-> "ciclo", activo |-> TRUE])
    /\ historial = <<>>
    /\ observaciones = <<>>
    /\ creados = 0
    /\ estados_seq = Cardinality(DOMAIN EstadosIniciales)
    /\ reloj = 0
    /\ sesiones = [k \in Sesiones |-> SesionLibre]
    /\ last = SinPeticion

\* ------------------------------------------------------------ input domains
IdsPedidos == AlumnoIds
IdsConUuid == IdsPedidos \cup {BAD_UUID}
\* an active status, the inactive one, and an id that no status has
EstadosPedidos == {1, 2, 3, 9}
MaestrosPedidos == {NONE, "mT", "mG"}
Comentarios == {NONE, "ok"}
Nombres == {NONE, "n2"}
Franjas == {NONE, "f1"}
MaestroIdsPedidos == {NONE, "T", "G"}

\* ------------------------------------------- PATCH /alumnos/{id}/estado
\* steps 4 and 6: admin, or moderator whose Maestro row is on the student's card
PermisoCambiarEstado(c, id) ==
    IF EsAdmin(c) THEN TRUE
    ELSE /\ MaestroDe(c) # NONE
         /\ TarjetaDeMaestro(id, MaestroDe(c))

\* variant: the teacher role is taken for a sufficient profile
PerfilPuedeCambiarConRol(c) == EsAdmin(c) \/ EsModerador(c) \/ EsMaestro(c)

\* step 4: if not (es_admin or es_moderador): 403
PerfilPuedeCambiar(c) == EsAdmin(c) \/ EsModerador(c)

\* variant: a target equal to the current status is rejected
CambiarEstadoCodigoSinRepetir(c, id, e, falla) ==
    IF ~UuidValido(id) THEN 400
    ELSE IF PersonaAutenticada(c) = NONE THEN 404
    ELSE IF ~PerfilPuedeCambiar(c) THEN 403
    ELSE IF ~AlumnoExiste(id) THEN 404
    ELSE IF ~PermisoCambiarEstado(c, id) THEN 403
    ELSE IF ~EstadoExiste(e) THEN 404
    ELSE IF ~EstadoActivo(e) THEN 400
    ELSE IF alumnos[id].id_estado_actual = e THEN 400
    ELSE IF falla THEN 500
    ELSE 200

CambiarEstadoCodigo(c, id, e, falla) ==
    IF ~UuidValido(id) THEN 400
    ELSE IF PersonaAutenticada(c) = NONE THEN 404
    ELSE IF ~PerfilPuedeCambiar(c) THEN 403
    ELSE IF ~AlumnoExiste(id) THEN 404
    ELSE IF ~PermisoCambiarEstado(c, id) THEN 403
    ELSE IF ~EstadoExiste(e) THEN 404
    ELSE IF ~EstadoActivo(e) THEN 400
    ELSE IF falla THEN 500
    ELSE 200

\* variant: the Alumno row keeps its status
AlumnosSinCambio(id, e) == alumnos

\* step 10: alumno.id_estado_actual = estado_data.id_estado
AlumnosTrasCambio(id, e) == [alumnos EXCEPT ![id].id_estado_actual = e]

\* variant: the entry is attributed to the person of the student
NuevoHistorialDelAlumno(c, id, e, com) ==
    [id_alumno |-> id, id_estado |-> e, comentario |-> com,
     cambiado_por |-> alumnos[id].id_persona, fecha_cambio |-> reloj]

\* step 11: db.add(HistorialEstado(...))
NuevoHistorial(c, id, e, com) ==
    [id_alumno |-> id, id_estado |-> e, comentario |-> com,
     cambiado_por |-> c, fecha_cambio |-> reloj]

\* variant: the new entry replaces the stored entries
HistorialTrasCambioPerdido(c, id, e, com) == <<NuevoHistorial(c, id, e, com)>>

HistorialTrasCambio(c, id, e, com) == Append(historial, NuevoHistorial(c, id, e, com))

\* the request with its comentario and, for a 200, the fields of the answer:
\* estado_anterior is read before the write, estado_nuevo is the id of the
\* request, historial.comentario is the one of the new row and
\* historial.cambiado_por the caller
RespuestaCambio(c, id, e, com, code) ==
    [op |-> "cambiar_estado", caller |-> c, id |-> id, estado |-> e, code |-> code,
     comentario |-> com,
     cuerpo |-> IF code = 200
                THEN [estado_anterior |-> alumnos[id].id_estado_actual,
                      estado_nuevo |-> e,
                      comentario |-> NuevoHistorial(c, id, e, com).comentario,
                      cambiado_por |-> c]
                ELSE NONE]

\* variant: the writes of a request whose commit fails are kept
CambiarEstadoAlumnoSinRollback(c, id, e, com, falla) ==
    LET code == CambiarEstadoCodigo(c, id, e, falla) IN
    /\ code \in {200, 500} => Len(historial) < MaxHistorial
    /\ IF code \in {200, 500}
       THEN /\ alumnos' = AlumnosTrasCambio(id, e)
            /\ historial' = HistorialTrasCambio(c, id, e, com)
            /\ reloj' = reloj + 1
            /\ UNCHANGED <<personas, person_roles, maestros, tarjetas, estados,
                           bolsas, observaciones, creados, estados_seq>>
       ELSE UNCHANGED tablas
    /\ UNCHANGED sesiones
    /\ last' = RespuestaCambio(c, id, e, com, code)

\* variant: the status copy on the card follows the student
CambiarEstadoAlumnoConTarjeta(c, id, e, com, falla) ==
    LET code == CambiarEstadoCodigo(c, id, e, falla) IN
    /\ code = 200 => Len(historial) < MaxHistorial
    /\ IF code = 200
       THEN /\ alumnos' = AlumnosTrasCambio(id, e)
            /\ tarjetas' = [tarjetas EXCEPT ![id].id_estado_actual = e]
            /\ historial' = HistorialTrasCambio(c, id, e, com)
            /\ reloj' = reloj + 1
            /\ UNCHANGED <<personas, person_roles, maestros, estados,
                           bolsas, observaciones, creados, estados_seq>>
       ELSE UNCHANGED tablas
    /\ UNCHANGED sesiones
    /\ last' = RespuestaCambio(c, id, e, com, code)

CambiarEstadoAlumno(c, id, e, com, falla) ==
    LET code == CambiarEstadoCodigo(c, id, e, falla) IN
    /\ code = 200 => Len(historial) < MaxHistorial
    /\ IF code = 200
       THEN /\ alumnos' = AlumnosTrasCambio(id, e)
            /\ historial' = HistorialTrasCambio(c, id, e, com)
            /\ reloj' = reloj + 1
            /\ UNCHANGED <<personas, person_roles, maestros, tarjetas, estados,
                           bolsas, observaciones, creados, estados_seq>>
       ELSE UNCHANGED tablas
    /\ UNCHANGED sesiones
    /\ last' = RespuestaCambio(c, id, e, com, code)

\* ----------------------------------------------------------- POST /alumnos
\* step 4: the Maestro row the new card is bound to, or the error that stops it
\* variant: the id_maestro of a teacher is honoured when it names a teacher
CrearAlumnoAsignacionPedida(c, m) ==
    IF EsAdmin(c) \/ EsPastor(c)
    THEN IF m = NONE THEN [code |-> 400, maestro |-> NONE]
         ELSE IF m \notin DOMAIN maestros THEN [code |-> 404, maestro |-> NONE]
         ELSE [code |-> 201, maestro |-> m]
    ELSE IF ~EsMaestro(c) THEN [code |-> 403, maestro |-> NONE]
    ELSE IF MaestroDe(c) = NONE THEN [code |-> 403, maestro |-> NONE]
    ELSE [code |-> 201, maestro |-> IF m \in DOMAIN maestros THEN m ELSE MaestroDe(c)]

CrearAlumnoAsignacion(c, m) ==
    IF EsAdmin(c) \/ EsPastor(c)
    THEN IF m = NONE THEN [code |-> 400, maestro |-> NONE]
         ELSE IF m \notin DOMAIN maestros THEN [code |-> 404, maestro |-> NONE]
         ELSE [code |-> 201, maestro |-> m]
    ELSE IF ~EsMaestro(c) THEN [code |-> 403, maestro |-> NONE]
    ELSE IF MaestroDe(c) = NONE THEN [code |-> 403, maestro |-> NONE]
    ELSE [code |-> 201, maestro |-> MaestroDe(c)]

CrearAlumnoCodigo(c, e, m, diasOk, falla) ==
    IF ~diasOk THEN 400
    ELSE IF PersonaAutenticada(c) = NONE THEN 404
    ELSE IF ~EstadoExiste(e) THEN 404
    ELSE IF ~EstadoActivo(e) THEN 400
    ELSE IF CrearAlumnoAsignacion(c, m).code # 201 THEN CrearAlumnoAsignacion(c, m).code
    ELSE IF falla \/ ~EstadoExiste(ESTADO_TARJETA) THEN 500
    ELSE 201

\* the handler; the students get the ids 1, 2, ... in the order of creation
CrearAlumnoFilas(c, e, m, diasOk, falla) ==
    LET code == CrearAlumnoCodigo(c, e, m, diasOk, falla)
        id == creados + 1
    IN
    /\ IF code = 201
       THEN /\ personas' = personas @@
                  (PersonaAlumno[id] :> [id_perfil |-> PERFIL_USUARIO, nombre |-> "n1"])
            /\ alumnos' = alumnos @@
                  (id :> [id_persona |-> PersonaAlumno[id], id_estado_actual |-> e,
                          franja_horaria |-> NONE])
            /\ tarjetas' = tarjetas @@
                  (id :> [id_maestro_asignado |-> CrearAlumnoAsignacion(c, m).maestro,
                          id_estado_actual |-> ESTADO_TARJETA])
            /\ creados' = creados + 1
            /\ UNCHANGED <<person_roles, maestros, estados, bolsas, historial,
                           observaciones, estados_seq, reloj>>
       ELSE UNCHANGED tablas
    /\ UNCHANGED sesiones
    /\ last' = [op |-> "crear_alumno", caller |-> c, id |-> IF code = 201 THEN id ELSE 0,
                estado |-> e, code |-> code, id_maestro |-> m, cuerpo |-> NONE]

CrearAlumno(c, e, m, diasOk, falla) ==
    /\ CrearAlumnoCodigo(c, e, m, diasOk, falla) = 201 => creados < MaxAlumnos
    /\ CrearAlumnoFilas(c, e, m, diasOk, falla)

\* ----------------------------------------------------------- GET /alumnos
\* maestroId is the id_persona of a teacher; the cards the caller may list
\* variant: a maestroId of no teacher filters instead of failing
GetAlumnosCodigoListaVacia(c, mp) ==
    IF PersonaAutenticada(c) = NONE THEN 404
    ELSE IF EsAdmin(c) \/ EsPastor(c) THEN 200
    ELSE IF ~EsMaestro(c) THEN 403
    ELSE IF MaestroDe(c) = NONE THEN 403
    ELSE 200

GetAlumnosCodigo(c, mp) ==
    IF PersonaAutenticada(c) = NONE THEN 404
    ELSE IF EsAdmin(c) \/ EsPastor(c)
         THEN IF mp # NONE /\ MaestroDe(mp) = NONE THEN 404 ELSE 200
    ELSE IF ~EsMaestro(c) THEN 403
    ELSE IF MaestroDe(c) = NONE THEN 403
    ELSE 200

\* variant: a pastor is served like a teacher
GetAlumnosTarjetasSoloPropias(c, mp) ==
    IF EsAdmin(c)
    THEN IF mp # NONE
         THEN {a \in DOMAIN tarjetas : tarjetas[a].id_maestro_asignado = MaestroDe(mp)}
         ELSE DOMAIN tarjetas
    ELSE {a \in DOMAIN tarjetas : tarjetas[a].id_maestro_asignado = MaestroDe(c)}

\* variant: the maestroId of a teacher is honoured
GetAlumnosTarjetasConFiltro(c, mp) ==
    IF mp # NONE /\ MaestroDe(mp) # NONE
    THEN {a \in DOMAIN tarjetas : tarjetas[a].id_maestro_asignado = MaestroDe(mp)}
    ELSE IF EsAdmin(c) \/ EsPastor(c) THEN DOMAIN tarjetas
    ELSE {a \in DOMAIN tarjetas : tarjetas[a].id_maestro_asignado = MaestroDe(c)}

GetAlumnosTarjetas(c, mp) ==
    IF EsAdmin(c) \/ EsPastor(c)
    THEN IF mp # NONE
         THEN {a \in DOMAIN tarjetas : tarjetas[a].id_maestro_asignado = MaestroDe(mp)}
         ELSE DOMAIN tarjetas
    ELSE {a \in DOMAIN tarjetas : tarjetas[a].id_maestro_asignado = MaestroDe(c)}

\* step 8: the usuario block of the answer
GetAlumnosUsuario(c, mp) ==
    IF EsAdmin(c)
    THEN [es_admin |-> TRUE, es_pastor |-> FALSE, es_maestro |-> FALSE,
          filtro_maestro |-> mp]
    ELSE [es_admin |-> FALSE, es_pastor |-> EsPastor(c), es_maestro |-> EsMaestro(c),
          filtro_maestro |-> IF EsPastor(c) THEN mp ELSE NONE]

\* step 7: one element per card whose Alumno and Persona rows exist; the
\* elements are told apart by id_alumno
GetAlumnosCuerpo(c, mp) ==
    LET ids == {a \in GetAlumnosTarjetas(c, mp) :
                   a \in DOMAIN alumnos /\ alumnos[a].id_persona \in DOMAIN personas}
    IN [alumnos |-> ids, total |-> Cardinality(ids), usuario |-> GetAlumnosUsuario(c, mp)]

GetAlumnos(c, mp) ==
    LET code == GetAlumnosCodigo(c, mp) IN
    /\ UNCHANGED tablas
    /\ UNCHANGED sesiones
    /\ last' = [op |-> "get_alumnos", caller |-> c, id |-> 0, estado |-> 0, code |-> code,
                maestroId |-> mp,
                cuerpo |-> IF code = 200 THEN GetAlumnosCuerpo(c, mp) ELSE NONE]

\* variant: the card of the student is not compared with the caller's Maestro row
GetAlumnoByIdCodigoSinTarjeta(c, id) ==
    IF PersonaAutenticada(c) = NONE THEN 404
    ELSE IF ~EsPastor(c) /\ ~EsMaestro(c) THEN 403
    ELSE IF ~AlumnoExiste(id) THEN 404
    ELSE 200

\* ------------------------------------------------------ GET /alumnos/{id}
GetAlumnoByIdCodigo(c, id) ==
    IF PersonaAutenticada(c) = NONE THEN 404
    ELSE IF ~EsPastor(c) /\ ~EsMaestro(c) THEN 403
    ELSE IF ~AlumnoExiste(id) THEN 404
    ELSE IF id \notin DOMAIN tarjetas THEN 404
    ELSE IF EsMaestro(c) /\ ~EsPastor(c) /\ MaestroDe(c) = NONE THEN 403
    ELSE IF EsMaestro(c) /\ ~EsPastor(c) /\ ~TarjetaDeMaestro(id, MaestroDe(c)) THEN 403
    ELSE IF alumnos[id].id_persona \notin DOMAIN personas THEN 404
    ELSE 200

\* step 9: the fields of the answer that the model keeps (the answer also has
\* id_tarjeta, apellido, email, foto_url, dias, motivo_oracion and created_at)
GetAlumnoByIdCuerpo(id) ==
    [id_alumno |-> id,
     nombre |-> personas[alumnos[id].id_persona].nombre,
     franja_horaria |-> alumnos[id].franja_horaria,
     maestro_asignado |-> tarjetas[id].id_maestro_asignado]

GetAlumnoById(c, id) ==
    LET code == GetAlumnoByIdCodigo(c, id) IN
    /\ UNCHANGED tablas
    /\ UNCHANGED sesiones
    /\ last' = [Respuesta("get_alumno", c, id, 0, code) EXCEPT
                  !.cuerpo = IF code = 200 THEN GetAlumnoByIdCuerpo(id) ELSE NONE]

\* variant: any recognised role passes, whatever the card says
PermisoSobreAlumnoSinTarjeta(c, id) == EsAdmin(c) \/ EsPastor(c) \/ EsMaestro(c)

\* ----------------------------------------- PUT and DELETE /alumnos/{id}
\* step 5 of update_alumno, step 4 of delete_alumno: 403 or pass
PermisoSobreAlumno(c, id) ==
    IF EsAdmin(c) THEN TRUE
    ELSE IF ~EsPastor(c) /\ ~EsMaestro(c) THEN FALSE
    ELSE IF EsMaestro(c) /\ ~EsPastor(c)
         THEN MaestroDe(c) # NONE /\ TarjetaDeMaestro(id, MaestroDe(c))
    ELSE TRUE

UpdateAlumnoCodigo(c, id, diasOk, falla) ==
    IF PersonaAutenticada(c) = NONE THEN 404
    ELSE IF ~AlumnoExiste(id) THEN 404
    ELSE IF id \notin DOMAIN tarjetas THEN 404
    ELSE IF ~PermisoSobreAlumno(c, id) THEN 403
    ELSE IF alumnos[id].id_persona \notin DOMAIN personas THEN 404
    ELSE IF ~diasOk THEN 400
    ELSE IF falla THEN 500
    ELSE 200

\* steps 7 and 8: only the supplied fields are written
PersonasTrasUpdate(id, nombre) ==
    IF nombre = NONE THEN personas
    ELSE [personas EXCEPT ![alumnos[id].id_persona].nombre = nombre]

AlumnosTrasUpdate(id, franja) ==
    IF franja = NONE THEN alumnos
    ELSE [alumnos EXCEPT ![id].franja_horaria = franja]

UpdateAlumno(c, id, nombre, franja, diasOk, falla) ==
    LET code == UpdateAlumnoCodigo(c, id, diasOk, falla) IN
    /\ IF code = 200
       THEN /\ personas' = PersonasTrasUpdate(id, nombre)
            /\ alumnos' = AlumnosTrasUpdate(id, franja)
            /\ UNCHANGED <<person_roles, maestros, tarjetas, estados, bolsas, historial,
                           observaciones, creados, reloj, estados_seq>>
       ELSE UNCHANGED tablas
    /\ UNCHANGED sesiones
    /\ last' = Respuesta("update_alumno", c, id, 0, code)

DeleteAlumnoCodigo(c, id, falla) ==
    IF PersonaAutenticada(c) = NONE THEN 404
    ELSE IF ~AlumnoExiste(id) THEN 404
    ELSE IF id \notin DOMAIN tarjetas THEN 404
    ELSE IF ~PermisoSobreAlumno(c, id) THEN 403
    ELSE IF falla THEN 500
    ELSE 200

Sin(f, k) == [x \in DOMAIN f \ {k} |-> f[x]]

\* variant: the rows of every student go
FilasDeNadie(filas, id) == <<>>

\* the rows of a table (a sequence) that do not belong to student id
FilasDeOtros(filas, id) == SelectSeq(filas, LAMBDA r : r.id_alumno # id)

\* step 5: db.delete(tarjeta); db.delete(alumno); the observaciones go with the
\* relationship's cascade and the historial_estados rows with ON DELETE CASCADE
DeleteAlumno(c, id, falla) ==
    LET code == DeleteAlumnoCodigo(c, id, falla) IN
    /\ IF code = 200
       THEN /\ alumnos' = Sin(alumnos, id)
            /\ tarjetas' = Sin(tarjetas, id)
            /\ observaciones' = FilasDeOtros(observaciones, id)
            /\ historial' = FilasDeOtros(historial, id)
            /\ UNCHANGED <<personas, person_roles, maestros, estados, bolsas, creados, estados_seq,
                           reloj>>
       ELSE UNCHANGED tablas
    /\ UNCHANGED sesiones
    /\ last' = Respuesta("delete_alumno", c, id, 0, code)

\* --------------------------------------- POST /alumnos/{id}/observaciones
\* step 4: admin, or moderator whose Maestro row is on the student's card
\* variant: any teacher row is enough for a moderator
PermisoCrearObservacionSinTarjeta(c, id) ==
    IF EsAdmin(c) THEN TRUE
    ELSE MaestroDe(c) # NONE

PermisoCrearObservacion(c, id) ==
    IF EsAdmin(c) THEN TRUE
    ELSE /\ MaestroDe(c) # NONE
         /\ TarjetaDeMaestro(id, MaestroDe(c))

CrearObservacionCodigo(c, id, falla) ==
    IF ~UuidValido(id) THEN 400
    ELSE IF ~AlumnoExiste(id) THEN 404
    ELSE IF PersonaAutenticada(c) = NONE THEN 404
    ELSE IF ~(EsAdmin(c) \/ EsModerador(c)) THEN 403
    ELSE IF ~PermisoCrearObservacion(c, id) THEN 403
    ELSE IF falla THEN 500
    ELSE 201

NuevaObservacion(c, id, texto) ==
    [id_alumno |-> id, id_autor |-> c, texto |-> texto, created_at |-> reloj]

CrearObservacion(c, id, texto, falla) ==
    LET code == CrearObservacionCodigo(c, id, falla) IN
    /\ code = 201 => Len(observaciones) < MaxObservaciones
    /\ IF code = 201
       THEN /\ observaciones' = Append(observaciones, NuevaObservacion(c, id, texto))
            /\ reloj' = reloj + 1
            /\ UNCHANGED <<personas, person_roles, maestros, alumnos, tarjetas, estados,
                           bolsas, historial, creados, estados_seq>>
       ELSE UNCHANGED tablas
    /\ UNCHANGED sesiones
    /\ last' = Respuesta("crear_observacion", c, id, 0, code)

\* ------------- GET /alumnos/{id}/historial, /observaciones and /actividad
FeedAlumnoCodigo(c, id) ==
    IF ~UuidValido(id) THEN 400
    ELSE IF ~AlumnoExiste(id) THEN 404
    ELSE IF PersonaAutenticada(c) = NONE THEN 404
    ELSE 200

GetHistorialAlumno(c, id) ==
    /\ UNCHANGED tablas
    /\ UNCHANGED sesiones
    /\ last' = Respuesta("get_historial", c, id, 0, FeedAlumnoCodigo(c, id))

GetObservacionesAlumno(c, id) ==
    /\ UNCHANGED tablas
    /\ UNCHANGED sesiones
    /\ last' = Respuesta("get_observaciones", c, id, 0, FeedAlumnoCodigo(c, id))

GetActividadAlumno(c, id) ==
    /\ UNCHANGED tablas
    /\ UNCHANGED sesiones
    /\ last' = Respuesta("get_actividad_alumno", c, id, 0, FeedAlumnoCodigo(c, id))

\* ----------------------------------------------- GET /alumnos/{id}/estados
GetEstadosDisponiblesCodigo(c, id) ==
    IF PersonaAutenticada(c) = NONE THEN 404
    ELSE IF ~UuidValido(id) THEN 422
    ELSE IF ~AlumnoExiste(id) THEN 404
    ELSE IF ~EstadoExiste(alumnos[id].id_estado_actual) THEN 404
    ELSE 200

\* variant: the activo flag of the statuses of the bucket is not filtered
EstadosDeBolsaSinFiltro(b) == {x \in DOMAIN estados : estados[x].id_bolsa = b}

\* .filter(Estado.id_bolsa == estado_actual.id_bolsa, Estado.activo == True)
EstadosActivosDeBolsa(b) ==
    {x \in DOMAIN estados : estados[x].id_bolsa = b /\ estados[x].activo}

\* .order_by(Estado.orden).all(): the rows in an order of non-decreasing
\* orden; rows of equal orden come in any order
OrdenadosPorOrden(S) ==
    {s \in [1..Cardinality(S) -> S] :
        /\ \A i, j \in 1..Cardinality(S) : i # j => s[i] # s[j]
        /\ \A i, j \in 1..Cardinality(S) :
              i < j => estados[s[i]].orden <= estados[s[j]].orden}

\* one element of estados_disponibles
OpcionDeEstado(x, actual) ==
    [id_estado |-> x, nombre |-> estados[x].nombre, orden |-> estados[x].orden,
     es_estado_actual |-> (x = actual)]

\* the lists that the handler can return for a student; id_bolsa 0 is NULL
EstadosDisponibles(id) ==
    LET actual == alumnos[id].id_estado_actual IN
    IF estados[actual].id_bolsa # 0
    THEN {[i \in DOMAIN s |-> OpcionDeEstado(s[i], actual)] :
             s \in OrdenadosPorOrden(EstadosActivosDeBolsa(estados[actual].id_bolsa))}
    ELSE {<<[OpcionDeEstado(actual, actual) EXCEPT !.es_estado_actual = TRUE]>>}

GetEstadosDisponibles(c, id) ==
    LET code == GetEstadosDisponiblesCodigo(c, id)
        r == Respuesta("get_estados_disponibles", c, id, 0, code)
    IN
    /\ UNCHANGED tablas
    /\ UNCHANGED sesiones
    /\ IF code = 200
       THEN \E cuerpo \in EstadosDisponibles(id) : last' = [r EXCEPT !.cuerpo = cuerpo]
       ELSE last' = r

\* ----------------------------------------------------------- GET /actividad
GetActividadGlobalCodigo(c) ==
    IF PersonaAutenticada(c) = NONE THEN 404
    ELSE IF EsAdmin(c) THEN 200
    ELSE IF ~EsPastor(c) /\ ~EsMaestro(c) THEN 403
    ELSE IF EsPastor(c) THEN 200
    ELSE IF MaestroDe(c) = NONE THEN 403
    ELSE 200

\* variant: a teacher is shown the students of every card
ActividadAlumnosIdsDeTodos(c) == DOMAIN alumnos

\* step 3: alumnos_ids, the students whose events the caller is shown
ActividadAlumnosIds(c) ==
    IF EsAdmin(c) \/ EsPastor(c) THEN DOMAIN alumnos
    ELSE {a \in DOMAIN tarjetas : tarjetas[a].id_maestro_asignado = MaestroDe(c)}

\* steps 4a and 4b: one event per history row and per observation of those
\* students, as the tipo filter allows; id_referencia is the row
ActividadEventos(ids, tipo) ==
    (IF tipo \in {NONE, "cambio_estado"}
     THEN {[tipo |-> "cambio_estado", fecha |-> historial[i].fecha_cambio,
            id_referencia |-> i, id_alumno |-> historial[i].id_alumno] :
              i \in {j \in 1..Len(historial) : historial[j].id_alumno \in ids}}
     ELSE {}) \cup
    (IF tipo \in {NONE, "observacion"}
     THEN {[tipo |-> "observacion", fecha |-> observaciones[i].created_at,
            id_referencia |-> i, id_alumno |-> observaciones[i].id_alumno] :
              i \in {j \in 1..Len(observaciones) : observaciones[j].id_alumno \in ids}}
     ELSE {})

\* variant: the oldest event comes first
OrdenadosPorFechaAscendente(E) ==
    {s \in [1..Cardinality(E) -> E] :
        /\ \A i, j \in 1..Cardinality(E) : i # j => s[i] # s[j]
        /\ \A i, j \in 1..Cardinality(E) : i < j => s[i].fecha <= s[j].fecha}

\* step 5: eventos.sort(key=fecha, reverse=True); the rows come from the
\* tables in any order, so events of equal fecha come in any order
OrdenadosPorFecha(E) ==
    {s \in [1..Cardinality(E) -> E] :
        /\ \A i, j \in 1..Cardinality(E) : i # j => s[i] # s[j]
        /\ \A i, j \in 1..Cardinality(E) : i < j => s[i].fecha >= s[j].fecha}

\* step 5: eventos[:limite]
Truncado(s, limite) == [i \in 1..(IF limite < Len(s) THEN limite ELSE Len(s)) |-> s[i]]

\* the answers that the feed can give: total and actividad
ActividadCuerpos(ids, tipo, limite) ==
    {[total |-> Len(Truncado(s, limite)), actividad |-> Truncado(s, limite)] :
        s \in OrdenadosPorFecha(ActividadEventos(ids, tipo))}

GetActividadGlobal(c, limite, tipo) ==
    LET code == GetActividadGlobalCodigo(c)
        r == [op |-> "get_actividad", caller |-> c, id |-> 0, estado |-> 0, code |-> code,
              limite |-> limite, tipo |-> tipo, cuerpo |-> NONE]
    IN
    /\ UNCHANGED tablas
    /\ UNCHANGED sesiones
    /\ IF code = 200
       THEN \E cuerpo \in ActividadCuerpos(ActividadAlumnosIds(c), tipo, limite) :
               last' = [r EXCEPT !.cuerpo = cuerpo]
       ELSE last' = r

\* ---------------------------------------- GET /dashboard/actividad-reciente
\* _get_persona_y_perfil, _es_pastor_o_admin and the lookup of the teacher row
GetActividadRecienteCodigo(c) ==
    IF PersonaAutenticada(c) = NONE THEN 404
    ELSE IF EsAdmin(c) \/ EsPastor(c) THEN 200
    ELSE IF MaestroDe(c) = NONE THEN 403
    ELSE 200

\* the students whose events the caller is shown
ActividadRecienteAlumnosIds(c) ==
    IF EsAdmin(c) \/ EsPastor(c) THEN DOMAIN alumnos
    ELSE {a \in DOMAIN tarjetas : tarjetas[a].id_maestro_asignado = MaestroDe(c)}

\* both kinds of event, sorted by fecha descending and cut at limite
GetActividadReciente(c, limite) ==
    LET code == GetActividadRecienteCodigo(c)
        r == [op |-> "get_actividad_reciente", caller |-> c, id |-> 0, estado |-> 0,
              code |-> code, limite |-> limite, cuerpo |-> NONE]
    IN
    /\ UNCHANGED tablas
    /\ UNCHANGED sesiones
    /\ IF code = 200
       THEN \E cuerpo \in ActividadCuerpos(ActividadRecienteAlumnosIds(c), NONE, limite) :
               last' = [r EXCEPT !.cuerpo = cuerpo]
       ELSE last' = r

\* the limite and tipo values of the feed requests
LimitesPedidos == {1, 2, 3}
TiposPedidos == {NONE, "cambio_estado", "observacion"}

\* ------------- PATCH /alumnos/{id}/estado served by concurrent sessions
\* Each request runs in a session of its own; the steps of two requests
\* interleave. Every query sees the rows committed so far.
EnCurso(k) == sesiones[k].pc \in {"leido", "validado", "escrito"}

\* steps 1 to 6: the id, the caller, the profile, the Alumno row, the card
LeerCodigo(c, id) ==
    IF ~UuidValido(id) THEN 400
    ELSE IF PersonaAutenticada(c) = NONE THEN 404
    ELSE IF ~PerfilPuedeCambiar(c) THEN 403
    ELSE IF ~AlumnoExiste(id) THEN 404
    ELSE IF ~PermisoCambiarEstado(c, id) THEN 403
    ELSE 0

SesLeer(k, c, id, e, com) ==
    LET code == LeerCodigo(c, id) IN
    /\ sesiones[k].pc = "libre"
    /\ Len(historial) + Cardinality({j \in Sesiones : EnCurso(j)}) < MaxHistorial
    /\ sesiones' = [sesiones EXCEPT ![k] =
          IF code = 0
          THEN [pc |-> "leido", caller |-> c, id |-> id, estado |-> e,
                comentario |-> com, cargado |-> alumnos[id].id_estado_actual,
                code |-> 0]
          ELSE [pc |-> "fin", caller |-> c, id |-> id, estado |-> e,
                comentario |-> com, cargado |-> 0, code |-> code]]
    /\ UNCHANGED <<tablas, last>>

\* steps 7 and 8: the target status exists and is active
ValidarCodigo(e) ==
    IF ~EstadoExiste(e) THEN 404
    ELSE IF ~EstadoActivo(e) THEN 400
    ELSE 0

SesValidar(k) ==
    LET code == ValidarCodigo(sesiones[k].estado) IN
    /\ sesiones[k].pc = "leido"
    /\ sesiones' = [sesiones EXCEPT ![k].pc = IF code = 0 THEN "validado" ELSE "fin",
                                    ![k].code = code]
    /\ UNCHANGED <<tablas, last>>

\* steps 9 to 11: the attribute is set and the history row added, both still
\* pending in the session
SesEscribir(k) ==
    /\ sesiones[k].pc = "validado"
    /\ sesiones' = [sesiones EXCEPT ![k].pc = "escrito"]
    /\ UNCHANGED <<tablas, last>>

\* variant: the flush writes the status the session had loaded
AlumnosTrasCommitCargado(k) ==
    AlumnosTrasCambio(sesiones[k].id, sesiones[k].cargado)

\* the flush emits UPDATE alumnos only when the attribute differs from the
\* value the session loaded
AlumnosTrasCommit(k) ==
    IF sesiones[k].estado # sesiones[k].cargado
    THEN AlumnosTrasCambio(sesiones[k].id, sesiones[k].estado)
    ELSE alumnos

\* db.commit(): flush (UPDATE, INSERT) and COMMIT, or rollback and 500
SesCommit(k, falla) ==
    LET s == sesiones[k]
        code == IF falla \/ ~AlumnoExiste(s.id) THEN 500 ELSE 200
    IN
    /\ s.pc = "escrito"
    /\ IF code = 200
       THEN /\ alumnos' = AlumnosTrasCommit(k)
            /\ historial' = HistorialTrasCambio(s.caller, s.id, s.estado, s.comentario)
            /\ reloj' = reloj + 1
            /\ UNCHANGED <<personas, person_roles, maestros, tarjetas, estados,
                           bolsas, observaciones, creados, estados_seq>>
       ELSE UNCHANGED tablas
    /\ sesiones' = [sesiones EXCEPT ![k].pc = "fin", ![k].code = code]
    /\ UNCHANGED last

\* the response is sent and the session closed
SesResponder(k) ==
    /\ sesiones[k].pc = "fin"
    /\ sesiones' = [sesiones EXCEPT ![k] = SesionLibre]
    /\ UNCHANGED <<tablas, last>>

\* ------------------------------------------------------------ POST /bolsas
NombresBolsa == {"ciclo", "b2"}
ListasDeEstados == {<<>>, <<"x">>, <<"primero", "x">>, <<"x", "x">>}

\* db.query(Estado).filter(func.lower(Estado.nombre) == nombre.lower()).first()
EstadoConNombre(n) ==
    IF \E e \in DOMAIN estados : estados[e].nombre = n
    THEN CHOOSE e \in DOMAIN estados : estados[e].nombre = n
    ELSE 0

\* db.query(func.max(Estado.orden)).scalar() or 0
MaxOrden ==
    IF DOMAIN estados = {} THEN 0
    ELSE CHOOSE o \in {estados[e].orden : e \in DOMAIN estados} :
            \A e \in DOMAIN estados : estados[e].orden <= o

\* the unique constraint on estados.nombre at the flush of the second commit:
\* the lookups do not see the pending rows, so a name that is new and listed
\* twice is inserted twice
NombresNuevosRepetidos(nombres) ==
    \E i, j \in 1..Len(nombres) :
        i < j /\ nombres[i] = nombres[j] /\ EstadoConNombre(nombres[i]) = 0

\* the rows of the table that the request has added so far
FilasNuevas(tabla) == Cardinality(DOMAIN tabla \ DOMAIN estados)

\* the loop over bolsa_data.estados
RECURSIVE EstadosTrasCrear(_, _, _, _)
EstadosTrasCrear(tabla, nombres, idx, b) ==
    IF idx > Len(nombres) THEN tabla
    ELSE IF EstadoConNombre(nombres[idx]) # 0
         THEN EstadosTrasCrear(
                 [tabla EXCEPT ![EstadoConNombre(nombres[idx])].id_bolsa = b],
                 nombres, idx + 1, b)
         ELSE EstadosTrasCrear(
                 tabla @@ ((estados_seq + FilasNuevas(tabla) + 1) :>
                              [nombre |-> nombres[idx], orden |-> MaxOrden + idx,
                               activo |-> TRUE, id_bolsa |-> b]),
                 nombres, idx + 1, b)

\* default=uuid.uuid4: an id that no row of bolsas has
NuevaBolsaId ==
    IF DOMAIN bolsas = {} THEN 1
    ELSE 1 + CHOOSE b \in DOMAIN bolsas : \A x \in DOMAIN bolsas : x <= b

\* 0: refused before any write; 1: the first commit failed; 2: the bolsa is
\* committed and the second commit failed; 3: everything committed
CreateBolsaEtapa(c, nombre, nombres, falla1, falla2) ==
    IF PersonaAutenticada(c) = NONE \/ ~EsAdmin(c) THEN 0
    ELSE IF \E b \in DOMAIN bolsas : bolsas[b].nombre = nombre THEN 0
    ELSE IF falla1 THEN 1
    ELSE IF nombres # <<>> /\ (falla2 \/ NombresNuevosRepetidos(nombres)) THEN 2
    ELSE 3

CreateBolsaCodigo(c, nombre, nombres, falla1, falla2) ==
    IF PersonaAutenticada(c) = NONE THEN 404
    ELSE IF ~EsAdmin(c) THEN 403
    ELSE IF \E b \in DOMAIN bolsas : bolsas[b].nombre = nombre THEN 400
    ELSE IF CreateBolsaEtapa(c, nombre, nombres, falla1, falla2) = 3 THEN 201
    ELSE 500

CreateBolsa(c, nombre, nombres, falla1, falla2) ==
    LET etapa == CreateBolsaEtapa(c, nombre, nombres, falla1, falla2)
        b == NuevaBolsaId
    IN
    /\ etapa >= 2 => Cardinality(DOMAIN bolsas) < MaxBolsas
    /\ bolsas' = IF etapa >= 2
                 THEN bolsas @@ (b :> [nombre |-> nombre, activo |-> TRUE])
                 ELSE bolsas
    /\ estados' = IF etapa = 3 THEN EstadosTrasCrear(estados, nombres, 1, b)
                  ELSE estados
    /\ estados_seq' = estados_seq + FilasNuevas(estados')
    /\ estados_seq' <= MaxFilasEstados
    /\ UNCHANGED <<personas, person_roles, maestros, alumnos, tarjetas, historial,
                   observaciones, creados, reloj, sesiones>>
    /\ last' = Respuesta("crear_bolsa", c, IF etapa >= 2 THEN b ELSE 0, 0,
                         CreateBolsaCodigo(c, nombre, nombres, falla1, falla2))

\* --------------------------------------------------- PUT /bolsas/{id_bolsa}
BolsasPedidas == {1, 2, BAD_UUID}

UpdateBolsaCodigo(c, b, nombre, nombres, falla) ==
    IF ~UuidValido(b) THEN 400
    ELSE IF PersonaAutenticada(c) = NONE THEN 404
    ELSE IF ~EsAdmin(c) THEN 403
    ELSE IF b \notin DOMAIN bolsas THEN 404
    ELSE IF /\ nombre # NONE
            /\ nombre # bolsas[b].nombre
            /\ \E x \in DOMAIN bolsas : bolsas[x].nombre = nombre THEN 400
    ELSE IF falla \/ (nombres # NONE /\ NombresNuevosRepetidos(nombres)) THEN 500
    ELSE 200

\* for estado in estados_actuales: estado.id_bolsa = None
EstadosDesvinculados(b) ==
    [e \in DOMAIN estados |->
        IF estados[e].id_bolsa = b THEN [estados[e] EXCEPT !.id_bolsa = 0]
        ELSE estados[e]]

UpdateBolsa(c, b, nombre, activo, nombres, falla) ==
    LET code == UpdateBolsaCodigo(c, b, nombre, nombres, falla) IN
    /\ IF code = 200
       THEN /\ bolsas' = [bolsas EXCEPT
                    ![b].nombre = IF nombre = NONE THEN @ ELSE nombre,
                    ![b].activo = IF activo = <<>> THEN @ ELSE activo[1]]
            /\ estados' = IF nombres = NONE THEN estados
                          ELSE EstadosTrasCrear(EstadosDesvinculados(b), nombres, 1, b)
            /\ estados_seq' = estados_seq + FilasNuevas(estados')
            /\ estados_seq' <= MaxFilasEstados
            /\ UNCHANGED <<personas, person_roles, maestros, alumnos, tarjetas,
                           historial, observaciones, creados, reloj>>
       ELSE UNCHANGED tablas
    /\ UNCHANGED sesiones
    /\ last' = Respuesta("update_bolsa", c, b, 0, code)

\* ------------------------------------------------ DELETE /bolsas/{id_bolsa}
\* the statuses that ON DELETE CASCADE removes with the bolsa
EstadosDeBolsa(b) == {e \in DOMAIN estados : estados[e].id_bolsa = b}

\* historial_estados.id_estado and tarjetas.id_estado_actual reference estados
\* without an ON DELETE rule: a referenced status cannot be deleted
EstadoReferenciado(e) ==
    \/ \E i \in 1..Len(historial) : historial[i].id_estado = e
    \/ \E a \in DOMAIN tarjetas : tarjetas[a].id_estado_actual = e

DeleteBolsaCodigo(c, b, force, falla) ==
    IF ~UuidValido(b) THEN 400
    ELSE IF PersonaAutenticada(c) = NONE THEN 404
    ELSE IF ~EsAdmin(c) THEN 403
    ELSE IF b \notin DOMAIN bolsas THEN 404
    ELSE IF falla THEN 500
    ELSE IF force /\ \E e \in EstadosDeBolsa(b) : EstadoReferenciado(e) THEN 500
    ELSE 200

\* the request with its force parameter, and its answer
RespuestaBorrado(c, b, force, code) ==
    [op |-> "delete_bolsa", caller |-> c, id |-> b, estado |-> 0, code |-> code,
     force |-> force, cuerpo |-> NONE]

\* variant: the soft delete marks the statuses of the bolsa inactive as well
DeleteBolsaConEstados(c, b, force, falla) ==
    LET code == DeleteBolsaCodigo(c, b, force, falla) IN
    /\ IF code = 200
       THEN IF force
            THEN /\ bolsas' = Sin(bolsas, b)
                 /\ estados' = [e \in DOMAIN estados \ EstadosDeBolsa(b) |-> estados[e]]
                 /\ UNCHANGED <<personas, person_roles, maestros, alumnos, tarjetas,
                                historial, observaciones, creados, estados_seq, reloj>>
            ELSE /\ bolsas' = [bolsas EXCEPT ![b].activo = FALSE]
                 /\ estados' = [e \in DOMAIN estados |->
                                   IF estados[e].id_bolsa = b
                                   THEN [estados[e] EXCEPT !.activo = FALSE]
                                   ELSE estados[e]]
                 /\ UNCHANGED <<personas, person_roles, maestros, alumnos, tarjetas,
                                historial, observaciones, creados, estados_seq, reloj>>
       ELSE UNCHANGED tablas
    /\ UNCHANGED sesiones
    /\ last' = RespuestaBorrado(c, b, force, code)

DeleteBolsa(c, b, force, falla) ==
    LET code == DeleteBolsaCodigo(c, b, force, falla) IN
    /\ IF code = 200
       THEN IF force
            THEN /\ bolsas' = Sin(bolsas, b)
                 /\ estados' = [e \in DOMAIN estados \ EstadosDeBolsa(b) |-> estados[e]]
                 /\ UNCHANGED <<personas, person_roles, maestros, alumnos, tarjetas,
                                historial, observaciones, creados, estados_seq, reloj>>
            ELSE /\ bolsas' = [bolsas EXCEPT ![b].activo = FALSE]
                 /\ UNCHANGED <<personas, person_roles, maestros, alumnos, tarjetas,
                                estados, historial, observaciones, creados,
                                estados_seq, reloj>>
       ELSE UNCHANGED tablas
    /\ UNCHANGED sesiones
    /\ last' = RespuestaBorrado(c, b, force, code)

\* ------------------------------------------------------------ POST /estados
\* a name that no status has yet, and one that the seed data uses
NombresDeEstado ==
    <<"e1", "e2", "e3", "e4", "e5", "e6", "e7", "e8", "e9", "e10", "e11", "e12",
      "e13", "e14", "e15", "e16", "e17", "e18", "e19", "e20">>

\* db.query(Estado).filter(Estado.activo == True).count()
EstadosActivos == Cardinality({e \in DOMAIN estados : estados[e].activo})

CrearEstadoCodigo(nombre, falla) ==
    IF EstadosActivos >= MAX_ESTADOS THEN 400
    ELSE IF falla \/ EstadoConNombre(nombre) # 0 THEN 500
    ELSE 200

CrearEstado(nombre, orden, falla) ==
    LET code == CrearEstadoCodigo(nombre, falla) IN
    /\ code = 200 => estados_seq < MaxFilasEstados
    /\ IF code = 200
       THEN /\ estados' = estados @@
                  ((estados_seq + 1) :> [nombre |-> nombre, orden |-> orden,
                                         activo |-> TRUE, id_bolsa |-> 0])
            /\ estados_seq' = estados_seq + 1
            /\ UNCHANGED <<personas, person_roles, maestros, alumnos, tarjetas, bolsas,
                           historial, observaciones, creados, reloj>>
       ELSE UNCHANGED tablas
    /\ UNCHANGED sesiones
    /\ last' = Respuesta("crear_estado", NONE, IF code = 200 THEN estados_seq + 1 ELSE 0,
                         0, code)

\* ------------------------------------------------------- PUT /config/estados
\* _verificar_pastor and the loop over the items, which stops at the first
\* id that no status has
ActualizarEstadosCodigo(c, items, falla) ==
    IF PersonaAutenticada(c) = NONE THEN 404
    ELSE IF ~EsPastor(c) THEN 403
    ELSE IF \E i \in 1..Len(items) : ~EstadoExiste(items[i].id_estado) THEN 404
    ELSE IF falla THEN 500
    ELSE 200

RECURSIVE EstadosTrasActualizar(_, _, _)
EstadosTrasActualizar(tabla, items, idx) ==
    IF idx > Len(items) THEN tabla
    ELSE EstadosTrasActualizar(
            [tabla EXCEPT
               ![items[idx].id_estado].orden =
                   IF items[idx].orden = <<>> THEN @ ELSE items[idx].orden[1],
               ![items[idx].id_estado].activo =
                   IF items[idx].activo = <<>> THEN @ ELSE items[idx].activo[1]],
            items, idx + 1)

ActualizarEstados(c, items, falla) ==
    LET code == ActualizarEstadosCodigo(c, items, falla) IN
    /\ IF code = 200
       THEN /\ estados' = EstadosTrasActualizar(estados, items, 1)
            /\ UNCHANGED <<personas, person_roles, maestros, alumnos, tarjetas, bolsas,
                           historial, observaciones, creados, estados_seq, reloj>>
       ELSE UNCHANGED tablas
    /\ UNCHANGED sesiones
    /\ last' = Respuesta("actualizar_estados", c, 0, 0, code)

\* the item lists of PUT /config/estados that the requests carry; an optional
\* field is <<>> when absent and <<value>> when present
ItemsPedidos ==
    {<<>>} \cup
    {<<[id_estado |-> e, orden |-> <<>>, activo |-> <<a>>]>> :
        e \in {3, 9}, a \in {TRUE, FALSE}} \cup
    {<<[id_estado |-> 3, orden |-> <<7>>, activo |-> <<TRUE>>],
       [id_estado |-> 9, orden |-> <<>>, activo |-> <<>>]>>}

\* the items with which the statuses of the bucket are switched on and off and
\* reordered
ItemsDeBolsa ==
    {<<[id_estado |-> e, orden |-> <<>>, activo |-> <<a>>]>> :
        e \in {2, 3}, a \in BOOLEAN} \cup
    {<<[id_estado |-> 4, orden |-> <<o>>, activo |-> <<>>]>> : o \in {1, 2, 5}}

\* A commit can only fail in a request that reaches its commit.
Fallas(llega) == IF llega THEN BOOLEAN ELSE {FALSE}

Next ==
    \/ \E c \in Callers, id \in IdsConUuid, e \in EstadosPedidos, com \in Comentarios :
          \E falla \in Fallas(CambiarEstadoCodigo(c, id, e, FALSE) = 200) :
             CambiarEstadoAlumno(c, id, e, com, falla)
    \/ \E c \in Callers, e \in EstadosPedidos, m \in MaestrosPedidos, diasOk \in BOOLEAN :
          \E falla \in Fallas(CrearAlumnoCodigo(c, e, m, diasOk, FALSE) = 201) :
             CrearAlumno(c, e, m, diasOk, falla)

Spec == Init /\ [][Next]_vars

\* Every handler of the student resource, one request at a time. G sends the
\* requests; T only creates students, so that cards of another teacher exist.
NextPermisos ==
    \/ \E c \in Callers, e \in {1, 9}, m \in MaestrosPedidos, diasOk \in BOOLEAN :
          \E falla \in Fallas(CrearAlumnoCodigo(c, e, m, diasOk, FALSE) = 201) :
             CrearAlumno(c, e, m, diasOk, falla)
    \/ \E mp \in MaestroIdsPedidos : GetAlumnos("G", mp)
    \/ \E id \in IdsPedidos : GetAlumnoById("G", id)
    \/ \E id \in IdsPedidos, diasOk \in BOOLEAN :
          \E falla \in Fallas(UpdateAlumnoCodigo("G", id, diasOk, FALSE) = 200) :
             UpdateAlumno("G", id, "n2", "f1", diasOk, falla)
    \/ \E id \in IdsPedidos :
          \E falla \in Fallas(DeleteAlumnoCodigo("G", id, FALSE) = 200) :
             DeleteAlumno("G", id, falla)
    \/ \E id \in IdsConUuid, e \in {2, 9} :
          \E falla \in Fallas(CambiarEstadoCodigo("G", id, e, FALSE) = 200) :
             CambiarEstadoAlumno("G", id, e, "ok", falla)
    \/ \E id \in IdsConUuid :
          \E falla \in Fallas(CrearObservacionCodigo("G", id, FALSE) = 201) :
             CrearObservacion("G", id, "t", falla)
    \/ \E id \in IdsConUuid : GetHistorialAlumno("G", id)
    \/ \E id \in IdsConUuid : GetObservacionesAlumno("G", id)
    \/ \E id \in IdsConUuid : GetActividadAlumno("G", id)
    \/ \E id \in IdsConUuid : GetEstadosDisponibles("G", id)
    \/ GetActividadGlobal("G", 2, NONE)

SpecPermisos == Init /\ [][NextPermisos]_vars

\* The available-statuses lookup while the catalogue is edited and the student
\* moves between a status without bucket and the statuses of a bucket.
NextDisponibles ==
    \/ \E e \in {1, 2} : CrearAlumno("G", e, "mT", TRUE, FALSE)
    \/ \E e \in {1, 4} : CambiarEstadoAlumno("G", 1, e, NONE, FALSE)
    \/ \E items \in ItemsDeBolsa : ActualizarEstados("G", items, FALSE)
    \/ \E c \in Callers, id \in IdsConUuid : GetEstadosDisponibles(c, id)

SpecDisponibles == Init /\ [][NextDisponibles]_vars

\* The global feed while students are created, change status and get
\* observations.
NextActividad ==
    \/ \E c \in Callers, m \in {"mT", "mG"} : CrearAlumno(c, 1, m, TRUE, FALSE)
    \/ \E c \in Callers, e \in {2, 4} : CambiarEstadoAlumno(c, 1, e, "ok", FALSE)
    \/ \E c \in Callers : CrearObservacion(c, 1, "t", FALSE)
    \/ \E c \in Callers, limite \in LimitesPedidos, tipo \in TiposPedidos :
          GetActividadGlobal(c, limite, tipo)
    \/ \E c \in Callers, limite \in LimitesPedidos : GetActividadReciente(c, limite)

SpecActividad == Init /\ [][NextActividad]_vars

\* Deletions among two students that have cards, history and observations.
NextBorrado ==
    \/ \E c \in Callers, m \in {"mT", "mG"} :
          /\ creados < MaxAlumnosBorrado
          /\ CrearAlumnoFilas(c, 1, m, TRUE, FALSE)
    \/ \E c \in Callers, id \in 1..MaxAlumnosBorrado : CambiarEstadoAlumno(c, id, 2, NONE, FALSE)
    \/ \E c \in Callers, id \in 1..MaxAlumnosBorrado : CrearObservacion(c, id, "t", FALSE)
    \/ \E c \in Callers, id \in 1..MaxAlumnosBorrado :
          \E falla \in Fallas(DeleteAlumnoCodigo(c, id, FALSE) = 200) :
             DeleteAlumno(c, id, falla)

SpecBorrado == Init /\ [][NextBorrado]_vars

\* Two sessions serve PATCH /alumnos/{id}/estado requests step by step while
\* students are created.
NextConc ==
    \/ \E c \in Callers, m \in MaestrosPedidos :
          CrearAlumno(c, 1, m, TRUE, FALSE)
    \/ \E k \in Sesiones, c \in Callers, id \in IdsConUuid, e \in {2, 3, 4} :
          SesLeer(k, c, id, e, "ok")
    \/ \E k \in Sesiones : SesValidar(k)
    \/ \E k \in Sesiones : SesEscribir(k)
    \/ \E k \in Sesiones, falla \in BOOLEAN : SesCommit(k, falla)
    \/ \E k \in Sesiones : SesResponder(k)

SpecConc == Init /\ [][NextConc]_vars

\* The creations that write more than one table.
NextTx ==
    \/ \E c \in Callers, e \in {1, 3}, m \in MaestrosPedidos, diasOk \in BOOLEAN :
          \E falla \in Fallas(CrearAlumnoCodigo(c, e, m, diasOk, FALSE) = 201) :
             CrearAlumno(c, e, m, diasOk, falla)
    \/ \E c \in Callers, nombre \in NombresBolsa, nombres \in ListasDeEstados :
          \E falla1 \in Fallas(CreateBolsaEtapa(c, nombre, nombres, FALSE, FALSE) # 0) :
             \E falla2 \in Fallas(~falla1 /\ nombres # <<>> /\
                                  CreateBolsaEtapa(c, nombre, nombres, FALSE, FALSE) = 3) :
                CreateBolsa(c, nombre, nombres, falla1, falla2)

SpecTx == Init /\ [][NextTx]_vars

\* The status catalogue: every operation that adds a status or sets its
\* activo flag.
NextEstados ==
    \/ \E n \in {NombresDeEstado[estados_seq + 1], "activo"} :
          \E falla \in Fallas(CrearEstadoCodigo(n, FALSE) = 200) :
             CrearEstado(n, 1, falla)
    \/ \E items \in ItemsPedidos :
          \E falla \in Fallas(ActualizarEstadosCodigo("G", items, FALSE) = 200) :
             ActualizarEstados("G", items, falla)
    \/ \E nombres \in {<<"x">>, <<"x", "x">>} :
          CreateBolsa("G", "b2", nombres, FALSE, FALSE)
    \/ \E b \in {2, BAD_UUID}, nombres \in {NONE, <<"y">>} :
          UpdateBolsa("G", b, NONE, <<>>, nombres, FALSE)

SpecEstados == Init /\ [][NextEstados]_vars

\* The buckets: creation, update, soft and hard delete, next to a student
\* whose status and history reference statuses of a bucket.
NextBolsas ==
    \/ \E nombres \in {<<>>, <<"primero", "x">>} :
          /\ estados_seq < MaxSeqBolsas
          /\ CreateBolsa("G", "b2", nombres, FALSE, FALSE)
    \/ \E b \in {1, 2}, nombres \in {NONE, <<"x">>} :
          /\ estados_seq < MaxSeqBolsas
          /\ UpdateBolsa("G", b, NONE, <<>>, nombres, FALSE)
    \/ \E b \in BolsasPedidas, force \in BOOLEAN :
          \E falla \in Fallas(DeleteBolsaCodigo("G", b, force, FALSE) = 200) :
             DeleteBolsa("G", b, force, falla)
    \/ CrearAlumno("G", 2, "mT", TRUE, FALSE)
    \/ CambiarEstadoAlumno("G", 1, 4, NONE, FALSE)

SpecBolsas == Init /\ [][NextBolsas]_vars

\* ================================================================ properties
\* db.query(HistorialEstado).filter(HistorialEstado.id_alumno == id)
HistorialDe(filas, id) == SelectSeq(filas, LAMBDA r : r.id_alumno = id)

EsPrefijo(s, t) == Len(s) <= Len(t) /\ SubSeq(t, 1, Len(s)) = s

\* the student operations of the permission rules
OpsAlumno ==
    {"get_alumnos", "get_alumno", "crear_alumno", "update_alumno", "delete_alumno",
     "cambiar_estado", "crear_observacion"}

\* every protected operation of the student resource
OpsProtegidas ==
    OpsAlumno \cup {"get_historial", "get_observaciones", "get_actividad_alumno",
                    "get_estados_disponibles", "get_actividad"}

\* the last request was about a student that existed when it was served
SobreAlumnoExistente ==
    \/ last.op \in {"get_alumnos", "crear_alumno", "get_actividad"}
    \/ AlumnoExiste(last.id)
    \/ last.op = "delete_alumno" /\ last.code = 200

SoloMaestro(c) == EsMaestro(c) /\ ~EsPastor(c) /\ ~EsAdmin(c)

\* C1: the status history is append-only under change_status. A call that
\* succeeds adds exactly one entry, for its student, carrying the requested
\* status and the caller; a call that fails adds none; in both cases every
\* entry that existed before the call is still there, unaltered and in place.
C1_HistorialSoloCrece ==
    [][last'.op = "cambiar_estado" =>
         /\ EsPrefijo(historial, historial')
         /\ \A id \in AlumnoIds :
               Len(HistorialDe(historial', id)) =
                  Len(HistorialDe(historial, id)) +
                     (IF last'.code = 200 /\ last'.id = id THEN 1 ELSE 0)
         /\ last'.code = 200 =>
               /\ Len(historial') = Len(historial) + 1
               /\ historial'[Len(historial')].id_alumno = last'.id
               /\ historial'[Len(historial')].id_estado = last'.estado
               /\ historial'[Len(historial')].cambiado_por = last'.caller
         /\ last'.code # 200 => historial' = historial]_vars

\* C1 witness: a second successful change of status, on top of an earlier entry
C1_Witness ==
    /\ last.op = "cambiar_estado"
    /\ last.code = 200
    /\ Len(historial) >= 2
    /\ historial[1].id_alumno = last.id

\* C2: a change_status call whose target status does not exist or is inactive
\* ends in an error, 404 or 400 once the caller and the student have passed
\* their checks, and leaves the student's current status and the history as
\* they were.
C2_EstadoInvalidoSinEfecto ==
    [][(/\ last'.op = "cambiar_estado"
        /\ \/ last'.estado \notin DOMAIN estados
           \/ ~estados[last'.estado].activo) =>
         /\ last'.code \in {400, 403, 404}
         /\ (/\ UuidValido(last'.id)
             /\ AlumnoExiste(last'.id)
             /\ PerfilPuedeCambiar(last'.caller)
             /\ PermisoCambiarEstado(last'.caller, last'.id)) =>
               last'.code = IF last'.estado \in DOMAIN estados THEN 400 ELSE 404
         /\ alumnos' = alumnos
         /\ historial' = historial]_vars

\* C2 witness: an authorised change to the inactive status 3 of a student that
\* already has history is refused with 400
C2_Witness ==
    /\ last.op = "cambiar_estado"
    /\ last.estado = 3
    /\ last.code = 400
    /\ AlumnoExiste(last.id)
    /\ PermisoCambiarEstado(last.caller, last.id)
    /\ HistorialDe(historial, last.id) # <<>>

\* C3 as stated: whoever calls PATCH /alumnos/{id}/estado with a profile that
\* is neither admin nor moderator gets Forbidden and nothing changes.
C3_SiemprePerfilProhibido ==
    [][(/\ last'.op = "cambiar_estado"
        /\ personas[last'.caller].id_perfil \notin {NIVEL_ADMIN, NIVEL_MODERADOR}) =>
         /\ last'.code = 403
         /\ alumnos' = alumnos
         /\ historial' = historial]_vars

\* C3 amended: such a caller gets Forbidden when the student id is well formed
\* and 400 when it is not (the id is parsed before the profile is looked at);
\* in both cases the student's status and the history stay as they were.
C3_PerfilProhibido ==
    [][(/\ last'.op = "cambiar_estado"
        /\ personas[last'.caller].id_perfil \notin {NIVEL_ADMIN, NIVEL_MODERADOR}) =>
         /\ last'.code = IF UuidValido(last'.id) THEN 403 ELSE 400
         /\ alumnos' = alumnos
         /\ historial' = historial]_vars

\* C3 witness: a user-profile caller holding both roles, with a Maestro row
\* that is on the card of the student, is refused
C3_Witness ==
    /\ last.op = "cambiar_estado"
    /\ last.caller = "G"
    /\ last.code = 403
    /\ personas["G"].id_perfil = PERFIL_USUARIO
    /\ RolesDe("G") = Roles
    /\ TarjetaDeMaestro(last.id, MaestroDe("G"))

\* C4 as stated: an administrator is never refused a student operation on an
\* existing student, whatever roles the administrator holds.
C4_AdminPermitido ==
    (/\ last.caller = "G"
     /\ EsAdmin("G")
     /\ last.op \in OpsAlumno
     /\ SobreAlumnoExistente) => last.code # 403

\* C5 as stated: a caller without the pastor and the teacher role who is not
\* an administrator is refused every protected operation; in particular no
\* protected operation answers such a caller with a success.
C5_SinRolDenegado ==
    (/\ last.caller = "G"
     /\ ~EsAdmin("G")
     /\ RolesDe("G") = {}
     /\ last.op \in OpsProtegidas) => last.code \notin {200, 201}

\* C6 as stated: for a caller holding the teacher role, GET /alumnos/{id} on
\* an existing student is 200 when the card references the caller's Maestro
\* row and Forbidden when it does not.
C6_MaestroSoloSusAlumnos ==
    (/\ last.op = "get_alumno"
     /\ last.caller = "G"
     /\ EsMaestro("G")
     /\ AlumnoExiste(last.id)) =>
        last.code = IF TarjetaDeMaestro(last.id, MaestroDe("G")) THEN 200 ELSE 403

\* C6 amended: the rule holds for a caller holding the teacher role and not
\* the pastor role; a caller holding both roles gets 200 whatever the card
\* says.
C6_MaestroNoPastor ==
    (/\ last.op = "get_alumno"
     /\ last.caller = "G"
     /\ EsMaestro("G")
     /\ AlumnoExiste(last.id)) =>
        last.code = IF EsPastor("G") \/ TarjetaDeMaestro(last.id, MaestroDe("G"))
                    THEN 200 ELSE 403

\* C6 witness: a teacher who is not a pastor, with a Maestro row, is refused
\* the student of another teacher
C6_Witness ==
    /\ last.op = "get_alumno"
    /\ last.caller = "G"
    /\ last.code = 403
    /\ EsMaestro("G") /\ ~EsPastor("G")
    /\ MaestroDe("G") = "mG"
    /\ TarjetaDeMaestro(last.id, "mT")

\* C7: for a teacher who is neither pastor nor administrator, PUT and DELETE
\* on a student whose card references another teacher are Forbidden and leave
\* the persons, students, cards and observations as they were; on a student
\* whose card references the caller's Maestro row they are not Forbidden.
C7_MaestroAjeno ==
    [][(/\ last'.op \in {"update_alumno", "delete_alumno"}
        /\ last'.caller = "G"
        /\ SoloMaestro("G")
        /\ AlumnoExiste(last'.id)) =>
         IF TarjetaDeMaestro(last'.id, MaestroDe("G"))
         THEN last'.code # 403
         ELSE /\ last'.code = 403
              /\ personas' = personas
              /\ alumnos' = alumnos
              /\ tarjetas' = tarjetas
              /\ observaciones' = observaciones]_vars

\* C7 witness: such a teacher, with a Maestro row of their own, is refused the
\* deletion of a student of teacher mT
C7_Witness ==
    /\ last.op = "delete_alumno"
    /\ last.caller = "G"
    /\ last.code = 403
    /\ SoloMaestro("G")
    /\ MaestroDe("G") = "mG"
    /\ TarjetaDeMaestro(last.id, "mT")

\* C8 as stated: a pastor is never refused a student operation on an existing
\* student, whoever the student is assigned to. The formula takes the pastors
\* whose profile is admin or moderator, which the profile rule for changes of
\* status does not exclude.
C8_PastorPermitido ==
    (/\ last.caller = "G"
     /\ EsPastor("G")
     /\ PerfilPuedeCambiar("G")
     /\ last.op \in OpsAlumno
     /\ SobreAlumnoExistente) => last.code # 403

\* the history row that the request of session k asked for
EntradaDe(h, k) ==
    /\ h.id_alumno = sesiones[k].id
    /\ h.id_estado = sesiones[k].estado
    /\ h.cambiado_por = sesiones[k].caller
    /\ h.comentario = sesiones[k].comentario

AmbasConExito ==
    /\ \A k \in Sesiones : sesiones[k].pc = "fin" /\ sesiones[k].code = 200
    /\ sesiones[1].id = sesiones[2].id

\* C9: when the two sessions have both changed the status of the same student
\* with success, however their steps interleaved, the history holds one entry
\* for each of the two changes and the student's current status is the target
\* of one of them.
C9_SinHistorialPerdido ==
    AmbasConExito =>
       /\ \E i, j \in 1..Len(historial) :
             i # j /\ EntradaDe(historial[i], 1) /\ EntradaDe(historial[j], 2)
       /\ alumnos[sesiones[1].id].id_estado_actual \in
             {sesiones[1].estado, sesiones[2].estado}

\* C9 witness: two different callers loaded the same current status, asked
\* for two different new ones, and both committed
C9_Witness ==
    /\ AmbasConExito
    /\ sesiones[1].caller # sesiones[2].caller
    /\ sesiones[1].cargado = sesiones[2].cargado
    /\ sesiones[1].estado # sesiones[2].estado
    /\ sesiones[1].estado # sesiones[1].cargado
    /\ sesiones[2].estado # sesiones[2].cargado
    /\ Len(historial) = 2

\* C10 as stated: a creation applies all of its writes or none. A student
\* creation that answers 201 has added the Persona, Alumno and Tarjeta rows
\* and any other outcome has added none; a bucket creation that does not
\* answer 201 has left the bolsas and estados tables as they were.
C10_TodoONada ==
    [][/\ last'.op = "crear_alumno" =>
            IF last'.code = 201
            THEN /\ last'.id \in DOMAIN alumnos' \ DOMAIN alumnos
                 /\ last'.id \in DOMAIN tarjetas' \ DOMAIN tarjetas
                 /\ alumnos'[last'.id].id_persona \in DOMAIN personas' \ DOMAIN personas
            ELSE personas' = personas /\ alumnos' = alumnos /\ tarjetas' = tarjetas
       /\ (last'.op = "crear_bolsa" /\ last'.code # 201) =>
            bolsas' = bolsas /\ estados' = estados]_vars

\* C11: when the commit of a change_status call fails the call answers 500
\* and, after the rollback, the student's current status is the one it had
\* before the call and the history has no entry for the call. In the one
\* request at a time model 500 is the answer of exactly the requests that
\* passed every check and failed at the commit.
C11_FalloDeCommit ==
    [][(last'.op = "cambiar_estado" /\ last'.code = 500) =>
         /\ CambiarEstadoCodigo(last'.caller, last'.id, last'.estado, FALSE) = 200
         /\ CambiarEstadoCodigo(last'.caller, last'.id, last'.estado, TRUE) = 500
         /\ alumnos' = alumnos
         /\ alumnos'[last'.id].id_estado_actual = alumnos[last'.id].id_estado_actual
         /\ historial' = historial]_vars

\* C11 witness: the commit of a change to an active status other than the
\* current one has failed, on a student that already has history
C11_Witness ==
    /\ last.op = "cambiar_estado"
    /\ last.code = 500
    /\ AlumnoExiste(last.id)
    /\ alumnos[last.id].id_estado_actual # last.estado
    /\ HistorialDe(historial, last.id) # <<>>

\* C12 as stated: in every reachable state at most MAX_ESTADOS statuses have
\* activo = true.
C12_MaximoDeActivos == EstadosActivos <= MAX_ESTADOS

\* C13 as stated: a status-history entry, once created, is never mutated or
\* deleted: every entry of a state is an entry of the next state.
C13_HistorialPermanente ==
    [][\A i \in 1..Len(historial) :
          \E j \in 1..Len(historial') : historial'[j] = historial[i]]_vars

\* the ids listed in a response of the available-statuses lookup
IdsListados(cuerpo) == {cuerpo[i].id_estado : i \in DOMAIN cuerpo}

\* the list holds each active status of the bucket once, with its name and
\* orden, in non-decreasing orden, and flags the current status and no other
ListaDeBolsa(cuerpo, b, actual) ==
    /\ IdsListados(cuerpo) = {x \in DOMAIN estados : estados[x].id_bolsa = b /\ estados[x].activo}
    /\ \A i, j \in DOMAIN cuerpo : i # j => cuerpo[i].id_estado # cuerpo[j].id_estado
    /\ \A i, j \in DOMAIN cuerpo : i < j => cuerpo[i].orden <= cuerpo[j].orden
    /\ \A i \in DOMAIN cuerpo :
          /\ cuerpo[i].nombre = estados[cuerpo[i].id_estado].nombre
          /\ cuerpo[i].orden = estados[cuerpo[i].id_estado].orden
          /\ cuerpo[i].es_estado_actual = (cuerpo[i].id_estado = actual)

\* the list holds the current status alone, flagged
ListaSinBolsa(cuerpo, actual) ==
    /\ Len(cuerpo) = 1
    /\ cuerpo[1].id_estado = actual
    /\ cuerpo[1].nombre = estados[actual].nombre
    /\ cuerpo[1].es_estado_actual

AutorizadoACambiar(c, id) ==
    /\ c \in DOMAIN personas
    /\ id \in DOMAIN alumnos
    /\ \/ EsAdmin(c)
       \/ /\ EsModerador(c)
          /\ \E m \in DOMAIN maestros :
                maestros[m] = c /\ tarjetas[id].id_maestro_asignado = m

\* C15: a change_status call of an authorised caller whose target exists and
\* is active passes every validation, whatever the current status of the
\* student is: it answers 200 and the student has the target status, or its
\* commit failed and it answers 500.
C15_TransicionLibre ==
    [][(/\ last'.op = "cambiar_estado"
        /\ AutorizadoACambiar(last'.caller, last'.id)
        /\ last'.estado \in DOMAIN estados
        /\ estados[last'.estado].activo) =>
         /\ CambiarEstadoCodigo(last'.caller, last'.id, last'.estado, FALSE) = 200
         /\ last'.code \in {200, 500}
         /\ last'.code = 200 => alumnos'[last'.id].id_estado_actual = last'.estado]_vars

\* two successful changes of one student to the same status: the second one
\* has a target equal to the current status
C15_Witness ==
    /\ last.op = "cambiar_estado"
    /\ last.code = 200
    /\ Len(historial) = 2
    /\ historial[1].id_alumno = historial[2].id_alumno
    /\ historial[1].id_estado = 2
    /\ historial[2].id_estado = 2

\* C16: no request changes the status copy of a card that exists, so the copy
\* is the one written at creation; a change_status call leaves the cards as
\* they were and, when it succeeds, changes in the alumnos table the current
\* status of its student and nothing else.
C16_TarjetaSinSincronizar ==
    [][/\ \A a \in DOMAIN tarjetas \cap DOMAIN tarjetas' :
             tarjetas'[a].id_estado_actual = tarjetas[a].id_estado_actual
       /\ last'.op = "cambiar_estado" =>
             /\ tarjetas' = tarjetas
             /\ last'.code = 200 =>
                   alumnos' = [alumnos EXCEPT ![last'.id].id_estado_actual = last'.estado]
             /\ last'.code # 200 => alumnos' = alumnos]_vars

\* after a successful change the student and the card disagree on the status
C16_Witness ==
    /\ last.op = "cambiar_estado"
    /\ last.code = 200
    /\ alumnos[last.id].id_estado_actual = last.estado
    /\ tarjetas[last.id].id_estado_actual = ESTADO_TARJETA
    /\ last.estado # ESTADO_TARJETA

\* C17: a change_status call of a moderator with an active status s and a
\* comment c that answers 200 reports estado_nuevo = s, leaves s as the
\* current status of the student and adds to the history one entry of the
\* student with status s, comentario c and cambiado_por the caller.
C17_CambioDeModerador ==
    [][(/\ last'.op = "cambiar_estado"
        /\ last'.code = 200
        /\ EsModerador(last'.caller)) =>
         /\ estados[last'.estado].activo
         /\ last'.cuerpo.estado_nuevo = last'.estado
         /\ last'.cuerpo.comentario = last'.comentario
         /\ last'.cuerpo.cambiado_por = last'.caller
         /\ alumnos'[last'.id].id_estado_actual = last'.estado
         /\ Len(historial') = Len(historial) + 1
         /\ SubSeq(historial', 1, Len(historial)) = historial
         /\ historial'[Len(historial')].id_alumno = last'.id
         /\ historial'[Len(historial')].id_estado = last'.estado
         /\ historial'[Len(historial')].comentario = last'.comentario
         /\ historial'[Len(historial')].cambiado_por = last'.caller]_vars

\* a moderator has changed the status of a student with the comment "ok"
C17_Witness ==
    /\ last.op = "cambiar_estado"
    /\ last.code = 200
    /\ EsModerador(last.caller)
    /\ last.comentario = "ok"
    /\ last.cuerpo.estado_anterior # last.cuerpo.estado_nuevo
    /\ historial[Len(historial)].comentario = "ok"
    /\ historial[Len(historial)].cambiado_por = last.caller

\* the students whose card names the teacher row of the caller
AlumnosDelMaestro(c) ==
    {a \in DOMAIN alumnos :
        \E m \in DOMAIN maestros : maestros[m] = c /\ tarjetas[a].id_maestro_asignado = m}

\* C18 as stated: GET /alumnos without maestroId by a caller who holds the
\* pastor role answers 200 with every student and usuario.es_pastor = true.
C18_PastorVeTodoYEsPastor ==
    [][(/\ last'.op = "get_alumnos"
        /\ last'.maestroId = NONE
        /\ <<last'.caller, ROL_PASTOR>> \in person_roles) =>
         /\ last'.code = 200
         /\ last'.cuerpo.alumnos = DOMAIN alumnos
         /\ last'.cuerpo.usuario.es_pastor = TRUE]_vars

\* C18, amended: GET /alumnos without maestroId by a caller who holds the
\* pastor role answers 200 with every student; usuario.es_pastor is true when
\* the profile of the caller is not the administrator one, and otherwise the
\* answer reports es_admin = true and es_pastor = false.
C18_PastorVeTodo ==
    [][(/\ last'.op = "get_alumnos"
        /\ last'.maestroId = NONE
        /\ <<last'.caller, ROL_PASTOR>> \in person_roles) =>
         /\ last'.code = 200
         /\ last'.cuerpo.alumnos = DOMAIN alumnos
         /\ last'.cuerpo.total = Cardinality(DOMAIN alumnos)
         /\ last'.cuerpo.usuario.es_pastor = (personas[last'.caller].id_perfil # NIVEL_ADMIN)
         /\ last'.cuerpo.usuario.es_admin = (personas[last'.caller].id_perfil = NIVEL_ADMIN)]_vars

\* a pastor without the administrator profile lists a student of another teacher
C18_Witness ==
    /\ last.op = "get_alumnos"
    /\ last.code = 200
    /\ last.maestroId = NONE
    /\ EsPastor(last.caller)
    /\ ~EsAdmin(last.caller)
    /\ last.cuerpo.usuario.es_pastor
    /\ \E a \in last.cuerpo.alumnos : a \notin AlumnosDelMaestro(last.caller)

AlumnosVisibles(c) ==
    IF personas[c].id_perfil = NIVEL_ADMIN \/ <<c, ROL_PASTOR>> \in person_roles
    THEN DOMAIN alumnos
    ELSE AlumnosDelMaestro(c)

\* the rows that are eligible for a feed, as <<kind, row>>, and their timestamp
FilasElegibles(c, tipo) ==
    {f \in {"cambio_estado"} \X (1..Len(historial)) :
        tipo # "observacion" /\ historial[f[2]].id_alumno \in AlumnosVisibles(c)} \cup
    {f \in {"observacion"} \X (1..Len(observaciones)) :
        tipo # "cambio_estado" /\ observaciones[f[2]].id_alumno \in AlumnosVisibles(c)}

FechaDeFila(f) ==
    IF f[1] = "cambio_estado" THEN historial[f[2]].fecha_cambio
    ELSE observaciones[f[2]].created_at

FilasDe(actividad) ==
    {<<actividad[i].tipo, actividad[i].id_referencia>> : i \in DOMAIN actividad}

\* C21: a successful GET /actividad with limit n returns min(n, number of
\* eligible events) events, each for a different eligible row (a history row
\* or an observation of a visible student that the tipo filter admits) and
\* with the timestamp of its row; fecha is non-increasing along the list, no
\* omitted eligible row is newer than a returned event, and total is the
\* length of the list.
C21_FeedOrdenadoYTruncado ==
    [][(last'.op = "get_actividad" /\ last'.code = 200) =>
         LET E == FilasElegibles(last'.caller, last'.tipo)
             r == last'.cuerpo.actividad
         IN /\ Len(r) = (IF last'.limite < Cardinality(E) THEN last'.limite
                         ELSE Cardinality(E))
            /\ last'.cuerpo.total = Len(r)
            /\ FilasDe(r) \subseteq E
            /\ Cardinality(FilasDe(r)) = Len(r)
            /\ \A i \in DOMAIN r :
                  r[i].fecha = FechaDeFila(<<r[i].tipo, r[i].id_referencia>>)
            /\ \A i, j \in DOMAIN r : i < j => r[i].fecha >= r[j].fecha
            /\ \A f \in E \ FilasDe(r) : \A i \in DOMAIN r : FechaDeFila(f) <= r[i].fecha]_vars

\* a feed of two events, one of each kind, that leaves an older event out
C21_Witness ==
    /\ last.op = "get_actividad"
    /\ last.code = 200
    /\ last.limite = 2
    /\ Len(last.cuerpo.actividad) = 2
    /\ last.cuerpo.actividad[1].tipo # last.cuerpo.actividad[2].tipo
    /\ last.cuerpo.actividad[1].fecha > last.cuerpo.actividad[2].fecha
    /\ Len(historial) + Len(observaciones) = 3

\* the rows of every student that the tipo filter admits
FilasDeTodos(tipo) ==
    {f \in {"cambio_estado"} \X (1..Len(historial)) : tipo # "observacion"} \cup
    {f \in {"observacion"} \X (1..Len(observaciones)) : tipo # "cambio_estado"}

\* C22: GET /actividad by an administrator or a pastor answers 200 and draws
\* its events from the rows of all students: the list has every admitted row
\* when the limit allows it. A successful call by a caller who holds the
\* teacher role, not the pastor role, and is no administrator has no event
\* about a student whose card does not name the caller's teacher row.
C22_VisibilidadDelFeed ==
    [][last'.op = "get_actividad" =>
         /\ (\/ personas[last'.caller].id_perfil = NIVEL_ADMIN
             \/ <<last'.caller, ROL_PASTOR>> \in person_roles) =>
               /\ last'.code = 200
               /\ FilasDe(last'.cuerpo.actividad) \subseteq FilasDeTodos(last'.tipo)
               /\ Len(last'.cuerpo.actividad) =
                     (IF last'.limite < Cardinality(FilasDeTodos(last'.tipo))
                      THEN last'.limite ELSE Cardinality(FilasDeTodos(last'.tipo)))
         /\ (/\ last'.code = 200
             /\ personas[last'.caller].id_perfil # NIVEL_ADMIN
             /\ <<last'.caller, ROL_PASTOR>> \notin person_roles
             /\ <<last'.caller, ROL_MAESTRO>> \in person_roles) =>
               \A i \in DOMAIN last'.cuerpo.actividad :
                  last'.cuerpo.actividad[i].id_alumno \in AlumnosDelMaestro(last'.caller)]_vars

\* a teacher is answered with an empty feed while a student of another
\* teacher has history and an observation
C22_Witness ==
    /\ last.op = "get_actividad"
    /\ last.code = 200
    /\ ~EsAdmin(last.caller)
    /\ ~EsPastor(last.caller)
    /\ EsMaestro(last.caller)
    /\ last.tipo = NONE
    /\ last.cuerpo.actividad = <<>>
    /\ Len(historial) > 0
    /\ Len(observaciones) > 0

\* the caller may leave an observation on the student: an administrator, or
\* a moderator whose teacher row is on the card of the student
PuedeObservar(c, id) ==
    \/ personas[c].id_perfil = NIVEL_ADMIN
    \/ /\ personas[c].id_perfil = NIVEL_MODERADOR
       /\ id \in DOMAIN tarjetas
       /\ \E m \in DOMAIN maestros : maestros[m] = c /\ tarjetas[id].id_maestro_asignado = m

\* C23 as stated: an observation is created, with the caller as author, only
\* for a caller who may leave it; every other call answers 403 and creates
\* no observation.
C23_ObservacionODenegado ==
    [][last'.op = "crear_observacion" =>
         /\ last'.code = 201 =>
               /\ PuedeObservar(last'.caller, last'.id)
               /\ observaciones' # observaciones
         /\ ~PuedeObservar(last'.caller, last'.id) =>
               /\ last'.code = 403
               /\ observaciones' = observaciones]_vars

\* C23, amended: an observation is created, with the caller as author, only
\* for a caller who may leave it; a call of any other caller creates no
\* observation and answers 400 when the id is malformed, 404 when no student
\* has the id, and 403 otherwise.
C23_ObservacionPermitida ==
    [][last'.op = "crear_observacion" =>
         /\ last'.code = 201 =>
               /\ PuedeObservar(last'.caller, last'.id)
               /\ Len(observaciones') = Len(observaciones) + 1
               /\ SubSeq(observaciones', 1, Len(observaciones)) = observaciones
               /\ observaciones'[Len(observaciones')].id_alumno = last'.id
               /\ observaciones'[Len(observaciones')].id_autor = last'.caller
         /\ last'.code # 201 => observaciones' = observaciones
         /\ ~PuedeObservar(last'.caller, last'.id) =>
               last'.code = IF last'.id = BAD_UUID THEN 400
                            ELSE IF last'.id \notin DOMAIN alumnos THEN 404
                            ELSE 403]_vars

\* a moderator with a teacher row is refused on a student of another teacher
C23_Witness ==
    /\ last.op = "crear_observacion"
    /\ last.code = 403
    /\ EsModerador(last.caller)
    /\ MaestroDe(last.caller) # NONE
    /\ AlumnoExiste(last.id)
    /\ ~TarjetaDeMaestro(last.id, MaestroDe(last.caller))
    /\ observaciones = <<>>

\* the teacher row named by the card is the row of the person
TarjetaPropia(tarjeta, c) ==
    \E m \in DOMAIN maestros : maestros[m] = c /\ tarjeta.id_maestro_asignado = m

\* C24 as stated: the card of a student created by a caller who holds the
\* teacher role names the caller's own teacher row.
C24_MaestroSeAutoasigna ==
    [][(/\ last'.op = "crear_alumno"
        /\ last'.code = 201
        /\ <<last'.caller, ROL_MAESTRO>> \in person_roles) =>
         TarjetaPropia(tarjetas'[last'.id], last'.caller)]_vars

\* C24, amended: the card of a student created by a caller who holds the
\* teacher role, not the pastor role, and is no administrator names the
\* caller's own teacher row whatever id_maestro is; the card of a student
\* created by an administrator or a pastor names the teacher row of id_maestro.
C24_AutoasignacionSinPastor ==
    [][(last'.op = "crear_alumno" /\ last'.code = 201) =>
         IF \/ personas[last'.caller].id_perfil = NIVEL_ADMIN
            \/ <<last'.caller, ROL_PASTOR>> \in person_roles
         THEN tarjetas'[last'.id].id_maestro_asignado = last'.id_maestro
         ELSE /\ <<last'.caller, ROL_MAESTRO>> \in person_roles
              /\ TarjetaPropia(tarjetas'[last'.id], last'.caller)]_vars

\* a teacher has created a student naming the row of another teacher, and the
\* card has the teacher's own row
C24_Witness ==
    /\ last.op = "crear_alumno"
    /\ last.code = 201
    /\ ~EsAdmin(last.caller)
    /\ ~EsPastor(last.caller)
    /\ EsMaestro(last.caller)
    /\ last.id_maestro \in DOMAIN maestros
    /\ last.id_maestro # MaestroDe(last.caller)
    /\ tarjetas[last.id].id_maestro_asignado = MaestroDe(last.caller)

\* C25: GET /alumnos by a caller who holds the pastor role, with a maestroId
\* that is the id_persona of no teacher row, answers 404 and no list.
C25_MaestroDesconocido ==
    [][(/\ last'.op = "get_alumnos"
        /\ <<last'.caller, ROL_PASTOR>> \in person_roles
        /\ last'.maestroId # NONE
        /\ \A m \in DOMAIN maestros : maestros[m] # last'.maestroId) =>
         /\ last'.code = 404
         /\ last'.cuerpo = NONE]_vars

\* a pastor without the administrator profile names a person who is no
\* teacher while a student exists
C25_Witness ==
    /\ last.op = "get_alumnos"
    /\ last.code = 404
    /\ EsPastor(last.caller)
    /\ ~EsAdmin(last.caller)
    /\ last.maestroId # NONE
    /\ MaestroDe(last.maestroId) = NONE
    /\ DOMAIN alumnos # {}

\* C26 as stated: a successful fetch of a student that follows its creation
\* with status X, with no request in between, returns id_estado_actual = X.
C26_IdaYVuelta ==
    [][(/\ last.op = "crear_alumno"
        /\ last.code = 201
        /\ last'.op = "get_alumno"
        /\ last'.id = last.id
        /\ last'.code = 200) =>
         /\ "id_estado_actual" \in DOMAIN last'.cuerpo
         /\ last'.cuerpo.id_estado_actual = last.estado]_vars

\* the caller may delete the student: an administrator, a pastor, or a
\* teacher whose row is on the card of the student
PuedeBorrar(c, id) ==
    \/ personas[c].id_perfil = NIVEL_ADMIN
    \/ <<c, ROL_PASTOR>> \in person_roles
    \/ /\ <<c, ROL_MAESTRO>> \in person_roles
       /\ TarjetaPropia(tarjetas[id], c)

\* C27: DELETE /alumnos/{id} of an existing student by a caller who may delete
\* it answers 200, or 500 when its commit fails. After a 200 the student, its
\* card and its observations are gone and the rows of every other student in
\* the three tables are as they were, in the same order; after any other
\* answer the three tables are as they were.
C27_BorradoEnCascada ==
    [][last'.op = "delete_alumno" =>
         /\ (last'.id \in DOMAIN alumnos /\ PuedeBorrar(last'.caller, last'.id)) =>
               last'.code \in {200, 500}
         /\ last'.code = 200 =>
               /\ DOMAIN alumnos' = DOMAIN alumnos \ {last'.id}
               /\ DOMAIN tarjetas' = DOMAIN tarjetas \ {last'.id}
               /\ \A a \in DOMAIN alumnos' :
                     alumnos'[a] = alumnos[a] /\ tarjetas'[a] = tarjetas[a]
               /\ \A i \in 1..Len(observaciones') : observaciones'[i].id_alumno # last'.id
               /\ observaciones' =
                     SelectSeq(observaciones, LAMBDA r : r.id_alumno # last'.id)
         /\ last'.code # 200 =>
               alumnos' = alumnos /\ tarjetas' = tarjetas /\ observaciones' = observaciones]_vars

\* a student has been deleted; the other student is there with its card and
\* its observation
C27_Witness ==
    /\ last.op = "delete_alumno"
    /\ last.code = 200
    /\ creados = 2
    /\ Cardinality(DOMAIN alumnos) = 1
    /\ DOMAIN tarjetas = DOMAIN alumnos
    /\ Len(observaciones) = 1
    /\ observaciones[1].id_alumno \in DOMAIN alumnos

\* the history rows of a student that no other row of the student is newer than
MasRecientes(id) ==
    {i \in 1..Len(historial) :
        /\ historial[i].id_alumno = id
        /\ \A j \in 1..Len(historial) :
              historial[j].id_alumno = id =>
                 historial[j].fecha_cambio <= historial[i].fecha_cambio}

\* C28: when the requests are served one after the other, a student that has
\* history has one most recent history entry and its status is the current
\* status of the student.
C28_EstadoActualEsElUltimo ==
    \A a \in DOMAIN alumnos :
       (\E i \in 1..Len(historial) : historial[i].id_alumno = a) =>
          /\ Cardinality(MasRecientes(a)) = 1
          /\ \A i \in MasRecientes(a) : historial[i].id_estado = alumnos[a].id_estado_actual

\* a student whose two history entries have different statuses
C28_Witness ==
    /\ Len(historial) = 2
    /\ historial[1].id_alumno = historial[2].id_alumno
    /\ historial[1].id_estado # historial[2].id_estado
    /\ historial[1].fecha_cambio < historial[2].fecha_cambio
    /\ historial[1].id_alumno \in DOMAIN alumnos
    /\ alumnos[historial[2].id_alumno].id_estado_actual = historial[2].id_estado

\* C29 as stated: in every reachable state the current status of each student
\* is the id of a row of the estados table.
C29_EstadoActualExiste ==
    \A a \in DOMAIN alumnos : alumnos[a].id_estado_actual \in DOMAIN estados

====
